---- MODULE Spec2Model ----
(***************************************************************************)
(* Model of the file-operation engine of terminal-explorer                 *)
(* (src/clipboard_helpers.py, src/explorer.py): the bounded undo/redo      *)
(* OperationHistory, driven by free record()/undo()/redo() calls and by    *)
(* the undo-all / redo-all loops of the test suite (specification Spec);   *)
(* the ClipboardManager with the filesystem it pastes into, for an         *)
(* existing destination (ClipSpec), a missing one (MissingSpec) and the    *)
(* items' own directory (OwnSpec); the handlers of ExplorerApp that paste, *)
(* record, undo, redo and delete (AppSpec), with a history that holds      *)
(* delete records (TrashSpec), a paste over an undone record (RepasteSpec) *)
(* and a destination taken again before a redo (RetakenSpec); and paste()  *)
(* step by step, two executions interleaved (RaceSpec, RaceFairSpec).      *)
(***************************************************************************)
EXTENDS Integers, Sequences, FiniteSets, TLC

\* Largest max_size an OperationHistory is constructed with in the model.
MaxSizeBound == 3
\* Cap on the number of record() calls of one run (the payload serial).
MaxRecords == 4
\* Cap on the number of files and directories the filesystem holds.
MaxFiles == 4
\* Cap on the number of paste records the application's history holds.
MaxPastes == 1
\* Cap on the number of filesystem entries while paste() runs step by step.
MaxRaceFiles == 6
\* OperationHistory's default max_size, the one the application constructs.
DefaultMaxSize == 50

VARIABLES
    max_size,      \* OperationHistory.max_size
    undo_stack,    \* OperationHistory.undo_stack, most recent at the tail
    redo_stack,    \* OperationHistory.redo_stack, most recent at the tail
    ret,           \* value returned by the last call
    raised,        \* exception that escaped the last call ("" if none)
    last,          \* name of the last call ("init" before the first)
    pre,           \* history: stacks, last and ret as they were before the last call
    log,           \* history (Spec): arguments of every record() call, in call order
    evicted,       \* history (Spec): serials dropped by record() (bound eviction, redo clear)
    only_records,  \* history: no undo()/redo() has been called since construction
    pc,            \* position of the undo-all / redo-all loops of the stress test
    count,         \* stress test: number of undo() calls of the undo-all loop
    redo_count,    \* stress test: number of redo() calls of the redo-all loop
    orig,          \* stress test: the stacks when the undo-all loop started
    items,         \* ClipboardManager.items
    clip_operation, \* ClipboardManager.operation: "", "copy" or "cut"
    world,         \* the filesystem: existing files/directories and parent directories
    clip_last,     \* name of the last ClipboardManager call ("init" before the first)
    clip_arg,      \* its argument (the staged paths, the destination)
    clip_ret,      \* its return value
    clip_raised,   \* the exception that escaped it ("" if none)
    clip_pre,      \* history: items and operation before the last call
    clip_trace,    \* history: what the last paste() did with each staged path
    app,           \* history: the last handler of the application, what it found and did
    threads        \* the paste() executions in progress: position, locals, results

histVars == <<max_size, undo_stack, redo_stack, ret, raised, last, pre, log,
              evicted, only_records, pc, count, redo_count, orig>>

clipVars == <<items, clip_operation, world, clip_last, clip_arg, clip_ret, clip_raised,
              clip_pre, clip_trace>>

vars == <<max_size, undo_stack, redo_stack, ret, raised, last, pre, log,
          evicted, only_records, pc, count, redo_count, orig,
          items, clip_operation, world, clip_last, clip_arg, clip_ret, clip_raised,
          clip_pre, clip_trace, app, threads>>

\* Python's None (the "no record" sentinel of undo()/redo()).
None == [none |-> TRUE]

\* No exception escaped the call.
NoError == ""

\* Operation kinds recorded: explorer.py records "paste", the tests "test".
Kinds == {"paste", "test"}

\* Payload (**kwargs) of the i-th record() call: the tests pass index=i, and
\* a paste carries more keys (here its destination).
Kwargs(operation, i) ==
    IF operation = "paste"
    THEN [index |-> i, destination |-> "/tmp"]
    ELSE [index |-> i]

----------------------------------------------------------------------------
\* Python list primitives used by OperationHistory.

\* list.pop(): removes and returns the last element; IndexError when empty.
list_pop(l) ==
    IF Len(l) = 0
    THEN [raised |-> "IndexError", list |-> l, val |-> None]
    ELSE [raised |-> NoError, list |-> SubSeq(l, 1, Len(l) - 1), val |-> l[Len(l)]]

\* list.pop(0): removes and returns the first element; IndexError when empty.
list_pop0(l) ==
    IF Len(l) = 0
    THEN [raised |-> "IndexError", list |-> l, val |-> None]
    ELSE [raised |-> NoError, list |-> SubSeq(l, 2, Len(l)), val |-> l[1]]

\* The dict literal {"op": operation, **kwargs}: keys of kwargs win.
record_dict(operation, kwargs) ==
    [k \in {"op"} \cup DOMAIN kwargs |->
        IF k \in DOMAIN kwargs THEN kwargs[k] ELSE operation]

----------------------------------------------------------------------------
\* OperationHistory.  self is [max_size, undo_stack, redo_stack]; a call
\* yields the object after the call, the returned value and the exception.

self == [max_size |-> max_size, undo_stack |-> undo_stack, redo_stack |-> redo_stack]

Outcome(h, u, r, v, e) ==
    [self |-> [max_size |-> h.max_size, undo_stack |-> u, redo_stack |-> r],
     ret |-> v, raised |-> e]

\* Mutant of can_undo: a single record does not count.
can_undo_off_by_one(h) == Len(h.undo_stack) > 1

can_undo(h) == Len(h.undo_stack) > 0

\* Mutant of can_redo: off by one in the emptiness test.
can_redo_off_by_one(h) == Len(h.redo_stack) > 1

can_redo(h) == Len(h.redo_stack) > 0

\* Mutant of record: the bound test is off by one (len > max_size + 1).
record_off_by_one(h, operation, kwargs) ==
    LET appended == Append(h.undo_stack, record_dict(operation, kwargs))
        kept == IF Len(appended) > h.max_size + 1
                THEN list_pop0(appended).list
                ELSE appended
    IN  Outcome(h, kept, <<>>, None, NoError)

\* Mutant of record: the redo stack is not cleared.
record_keeps_redo(h, operation, kwargs) ==
    LET appended == Append(h.undo_stack, record_dict(operation, kwargs))
        kept == IF Len(appended) > h.max_size
                THEN list_pop0(appended).list
                ELSE appended
    IN  Outcome(h, kept, h.redo_stack, None, NoError)

\* Mutant of record: eviction removes the newest entry (pop() for pop(0)).
record_evicts_newest(h, operation, kwargs) ==
    LET appended == Append(h.undo_stack, record_dict(operation, kwargs))
        kept == IF Len(appended) > h.max_size
                THEN list_pop(appended).list
                ELSE appended
    IN  Outcome(h, kept, <<>>, None, NoError)

\* Mutant of record: a bound of 0 is taken for "no bound"
\* (if self.max_size and len(...) > self.max_size).
record_zero_unbounded(h, operation, kwargs) ==
    LET appended == Append(h.undo_stack, record_dict(operation, kwargs))
        kept == IF h.max_size # 0 /\ Len(appended) > h.max_size
                THEN list_pop0(appended).list
                ELSE appended
    IN  Outcome(h, kept, <<>>, None, NoError)

record(h, operation, kwargs) ==
    LET appended == Append(h.undo_stack, record_dict(operation, kwargs))
        kept == IF Len(appended) > h.max_size
                THEN list_pop0(appended).list
                ELSE appended
    IN  Outcome(h, kept, <<>>, None, NoError)

\* Mutant of undo: the oldest entry is popped (pop(0) for pop()).
undo_pops_oldest(h) ==
    IF ~can_undo(h)
    THEN Outcome(h, h.undo_stack, h.redo_stack, None, NoError)
    ELSE LET p == list_pop0(h.undo_stack)
         IN  Outcome(h, p.list, Append(h.redo_stack, p.val), p.val, NoError)

\* Mutant of undo: the can_undo() guard is missing.
undo_unguarded(h) ==
    LET p == list_pop(h.undo_stack)
    IN  IF p.raised # NoError
        THEN Outcome(h, h.undo_stack, h.redo_stack, None, p.raised)
        ELSE Outcome(h, p.list, Append(h.redo_stack, p.val), p.val, NoError)

\* Mutant of undo: the popped record is rewritten before it is pushed and returned.
undo_alters(h) ==
    IF ~can_undo(h)
    THEN Outcome(h, h.undo_stack, h.redo_stack, None, NoError)
    ELSE LET p == list_pop(h.undo_stack)
             q == [p.val EXCEPT !["op"] = "undone"]
         IN  Outcome(h, p.list, Append(h.redo_stack, q), q, NoError)

undo(h) ==
    IF ~can_undo(h)
    THEN Outcome(h, h.undo_stack, h.redo_stack, None, NoError)
    ELSE LET p == list_pop(h.undo_stack)
         IN  IF p.raised # NoError
             THEN Outcome(h, h.undo_stack, h.redo_stack, None, p.raised)
             ELSE Outcome(h, p.list, Append(h.redo_stack, p.val), p.val, NoError)

\* Mutant of redo: the oldest undone entry is popped (pop(0) for pop()).
redo_pops_oldest(h) ==
    IF ~can_redo(h)
    THEN Outcome(h, h.undo_stack, h.redo_stack, None, NoError)
    ELSE LET p == list_pop0(h.redo_stack)
         IN  Outcome(h, Append(h.undo_stack, p.val), p.list, p.val, NoError)

\* Mutant of redo: the popped record is returned but not pushed back.
redo_no_push(h) ==
    IF ~can_redo(h)
    THEN Outcome(h, h.undo_stack, h.redo_stack, None, NoError)
    ELSE LET p == list_pop(h.redo_stack)
         IN  Outcome(h, h.undo_stack, p.list, p.val, NoError)

redo(h) ==
    IF ~can_redo(h)
    THEN Outcome(h, h.undo_stack, h.redo_stack, None, NoError)
    ELSE LET p == list_pop(h.redo_stack)
         IN  IF p.raised # NoError
             THEN Outcome(h, h.undo_stack, h.redo_stack, None, p.raised)
             ELSE Outcome(h, Append(h.undo_stack, p.val), p.list, p.val, NoError)

----------------------------------------------------------------------------
\* Paths and the filesystem.  A path is kept as os.path.split and
\* os.path.splitext cut it: its directory, the stem of its basename and the
\* extension (from the last dot).  The world holds the existing entries
\* (files: path -> kind and content) and the plain parent directories.

Path(dir, name, ext) == [dir |-> dir, name |-> name, ext |-> ext]

\* The path as one string.
pathstr(p) == p.dir \o "/" \o p.name \o p.ext

\* os.path.basename(item)
basename(p) == [name |-> p.name, ext |-> p.ext]

\* os.path.join(destination, basename)
join(destination, b) == [dir |-> destination, name |-> b.name, ext |-> b.ext]

\* os.path.splitext(basename): (name, ext)
splitext(b) == <<b.name, b.ext>>

\* The basename f"{name} ({counter}){ext}".
numbered(name, counter, ext) ==
    [name |-> name \o " (" \o ToString(counter) \o ")", ext |-> ext]

\* os.path.exists(path)
exists(w, p) == p \in DOMAIN w.files

\* os.path.isdir(path)
isdir(w, p) == p \in DOMAIN w.files /\ w.files[p].kind = "dir"

\* The directory named d exists (as a plain directory or as an entry).
dir_exists(w, d) ==
    \/ d \in w.dirs
    \/ \E q \in DOMAIN w.files : w.files[q].kind = "dir" /\ pathstr(q) = d

put(w, p, v) ==
    [w EXCEPT !.files = [q \in DOMAIN w.files \cup {p} |-> IF q = p THEN v ELSE w.files[q]]]

remove(w, p) ==
    [w EXCEPT !.files = [q \in DOMAIN w.files \ {p} |-> w.files[q]]]

\* A transfer that raised (caught by paste) and one that returned.
Failed(w) == [ok |-> FALSE, w |-> w]

Done(w) == [ok |-> TRUE, w |-> w]

\* shutil.copy2(src, dst) of a file; envfail: the environment refuses it
\* (permission denied, disk full).  A missing parent directory raises, an
\* existing file dst is overwritten, a directory dst receives the file.
copy2(w, src, dst, envfail) ==
    IF envfail \/ ~dir_exists(w, dst.dir) \/ src = dst
    THEN Failed(w)
    ELSE IF isdir(w, dst)
         THEN Done(put(w, join(pathstr(dst), basename(src)), w.files[src]))
         ELSE Done(put(w, dst, w.files[src]))

\* shutil.copytree(src, dst) of a directory: raises when dst exists, creates
\* missing parent directories (os.makedirs).
copytree(w, src, dst, envfail) ==
    IF envfail \/ exists(w, dst)
    THEN Failed(w)
    ELSE Done([put(w, dst, w.files[src]) EXCEPT !.dirs = @ \cup {dst.dir}])

\* shutil.move(src, dst): into dst when dst is a directory, else os.rename,
\* and when the rename raises, copytree + rmtree for a directory (which
\* creates missing parents) and copy2 + unlink for a file.
move(w, src, dst, envfail) ==
    LET into == isdir(w, dst) /\ src # dst
        real_dst == IF into THEN join(pathstr(dst), basename(src)) ELSE dst
    IN  IF envfail \/ (into /\ exists(w, real_dst))
        THEN Failed(w)
        ELSE IF src = real_dst
        THEN Done(w)
        ELSE IF dir_exists(w, real_dst.dir)
        THEN IF exists(w, real_dst) /\ isdir(w, src)
             THEN Failed(w)
             ELSE Done(put(remove(w, src), real_dst, w.files[src]))
        ELSE IF isdir(w, src)
             THEN Done([put(remove(w, src), real_dst, w.files[src])
                           EXCEPT !.dirs = @ \cup {real_dst.dir}])
             ELSE Failed(w)

----------------------------------------------------------------------------
\* ClipboardManager.  A clipboard is [items, operation].

clipboard == [items |-> items, operation |-> clip_operation]

\* ClipboardManager.copy(paths)
copy(c, paths) == [items |-> paths, operation |-> "copy"]

\* Mutant of cut: the new paths are added to the staged ones.
cut_merges(c, paths) == [items |-> c.items \o paths, operation |-> "cut"]

\* ClipboardManager.cut(paths)
cut(c, paths) == [items |-> paths, operation |-> "cut"]

\* Mutant of clear: only the operation is reset.
clear_mode_only(c) == [items |-> c.items, operation |-> ""]

\* Mutant of clear: only the items are reset.
clear_items_only(c) == [items |-> <<>>, operation |-> c.operation]

\* ClipboardManager.clear()
clear(c) == [items |-> <<>>, operation |-> ""]

\* Mutant of has_items: tells by the operation, not by the items.
has_items_by_mode(c) == c.operation # ""

\* ClipboardManager.has_items()
has_items(c) == Len(c.items) > 0

\* The conflict loop of paste: while os.path.exists(dest_path), try the next
\* numbered name.
RECURSIVE probe(_, _, _, _, _, _)
probe(w, destination, name, ext, dest_path, counter) ==
    IF exists(w, dest_path)
    THEN probe(w, destination, name, ext,
               join(destination, numbered(name, counter, ext)), counter + 1)
    ELSE dest_path

\* Mutant of resolve: the counter is incremented before its first use.
resolve_from_two(w, destination, item) ==
    LET b == basename(item)
        dest_path == join(destination, b)
    IN  IF exists(w, dest_path)
        THEN probe(w, destination, splitext(b)[1], splitext(b)[2], dest_path, 2)
        ELSE dest_path

\* Mutant of resolve: no conflict handling, always destination/basename.
resolve_no_probe(w, destination, item) == join(destination, basename(item))

\* The destination paste chooses for item: destination/basename, or on a
\* conflict the first free numbered name, counting from 1.
resolve(w, destination, item) ==
    LET b == basename(item)
        dest_path == join(destination, b)
    IN  IF exists(w, dest_path)
        THEN probe(w, destination, splitext(b)[1], splitext(b)[2], dest_path, 1)
        ELSE dest_path

\* Mutant of transfer: a cut item is copied, its source stays.
transfer_cut_copies(op, w, item, dest_path, envfail) ==
    IF isdir(w, item)
    THEN copytree(w, item, dest_path, envfail)
    ELSE copy2(w, item, dest_path, envfail)

\* The transfer of one existing item under the clipboard's operation.
transfer(op, w, item, dest_path, envfail) ==
    IF op = "copy"
    THEN IF isdir(w, item)
         THEN copytree(w, item, dest_path, envfail)
         ELSE copy2(w, item, dest_path, envfail)
    ELSE IF op = "cut"
    THEN move(w, item, dest_path, envfail)
    ELSE Done(w)

\* One iteration of paste's loop over self.items.  Yields the world after
\* it, the pair appended to results (if any) and what happened: whether the
\* item existed, the destination chosen and the world it was chosen in.
paste_item(op, w, destination, item, envfail) ==
    IF ~exists(w, item)
    THEN [w |-> w, pairs |-> <<>>,
          step |-> [item |-> item, existed |-> FALSE, dest |-> item,
                    before |-> w, after |-> w, ok |-> FALSE]]
    ELSE LET dest_path == resolve(w, destination, item)
             t == transfer(op, w, item, dest_path, envfail)
         IN  [w |-> t.w,
              pairs |-> IF t.ok THEN << <<item, dest_path>> >> ELSE <<>>,
              step |-> [item |-> item, existed |-> TRUE, dest |-> dest_path,
                        before |-> w, after |-> t.w, ok |-> t.ok]]

\* Mutant of paste_loop: a missing item ends the loop (break for continue).
RECURSIVE paste_loop_stops(_, _, _, _, _, _, _)
paste_loop_stops(c, w, destination, fails, i, results, trace) ==
    IF i > Len(c.items) \/ ~exists(w, c.items[i])
    THEN [w |-> w, results |-> results, trace |-> trace]
    ELSE LET r == paste_item(c.operation, w, destination, c.items[i], i \in fails)
         IN  paste_loop_stops(c, r.w, destination, fails, i + 1,
                              results \o r.pairs, Append(trace, r.step))

\* Mutant of paste_loop: a refused transfer ends the loop (the exception is
\* caught around the loop instead of around one item).
RECURSIVE paste_loop_aborts(_, _, _, _, _, _, _)
paste_loop_aborts(c, w, destination, fails, i, results, trace) ==
    IF i > Len(c.items)
    THEN [w |-> w, results |-> results, trace |-> trace]
    ELSE LET r == paste_item(c.operation, w, destination, c.items[i], i \in fails)
         IN  IF r.step.existed /\ ~r.step.ok
             THEN [w |-> r.w, results |-> results, trace |-> Append(trace, r.step)]
             ELSE paste_loop_aborts(c, r.w, destination, fails, i + 1,
                                    results \o r.pairs, Append(trace, r.step))

\* Mutant of paste_loop: each new pair is put in front of the results.
RECURSIVE paste_loop_reversed(_, _, _, _, _, _, _)
paste_loop_reversed(c, w, destination, fails, i, results, trace) ==
    IF i > Len(c.items)
    THEN [w |-> w, results |-> results, trace |-> trace]
    ELSE LET r == paste_item(c.operation, w, destination, c.items[i], i \in fails)
         IN  paste_loop_reversed(c, r.w, destination, fails, i + 1,
                                 r.pairs \o results, Append(trace, r.step))

\* paste's loop from the i-th staged item on; fails: the items whose
\* transfer the environment refuses.
RECURSIVE paste_loop(_, _, _, _, _, _, _)
paste_loop(c, w, destination, fails, i, results, trace) ==
    IF i > Len(c.items)
    THEN [w |-> w, results |-> results, trace |-> trace]
    ELSE LET r == paste_item(c.operation, w, destination, c.items[i], i \in fails)
         IN  paste_loop(c, r.w, destination, fails, i + 1,
                        results \o r.pairs, Append(trace, r.step))

\* Mutant of paste: the clipboard is cleared after every paste.
paste_always_clears(c, w, destination, fails) ==
    LET r == paste_loop(c, w, destination, fails, 1, <<>>, <<>>)
    IN  [clipboard |-> clear(c),
         w |-> r.w, ret |-> r.results, raised |-> NoError, trace |-> r.trace]

\* Mutant of paste: the clipboard is never cleared.
paste_never_clears(c, w, destination, fails) ==
    LET r == paste_loop(c, w, destination, fails, 1, <<>>, <<>>)
    IN  [clipboard |-> c,
         w |-> r.w, ret |-> r.results, raised |-> NoError, trace |-> r.trace]

\* ClipboardManager.paste(destination): the loop, then clear() after a cut.
paste(c, w, destination, fails) ==
    LET r == paste_loop(c, w, destination, fails, 1, <<>>, <<>>)
    IN  [clipboard |-> IF c.operation = "cut" THEN clear(c) ELSE c,
         w |-> r.w, ret |-> r.results, raised |-> NoError, trace |-> r.trace]

----------------------------------------------------------------------------
\* State machine.

Snapshot ==
    [undo_stack |-> undo_stack, redo_stack |-> redo_stack, last |-> last, ret |-> ret]

\* Entries the user stages: a file and a directory of /src.
FileA == Path("/src", "a", ".txt")

DirB == Path("/src", "b", "")

SourcePaths == {FileA, DirB}

\* Kind and content of the source entries.
SourceEntry(p) ==
    IF p = FileA THEN [kind |-> "file", data |-> 1] ELSE [kind |-> "dir", data |-> 2]

\* The directory pasted into: it exists, and is empty at start.
Destinations == {"/dst"}

\* The filesystem at start: the two sources, /dst empty, /missing absent.
InitialWorld ==
    [files |-> [p \in SourcePaths |-> SourceEntry(p)], dirs |-> {"/src", "/dst"}]

\* ClipboardManager.__init__: nothing staged.
ClipboardInit ==
    /\ items = <<>>
    /\ clip_operation = ""
    /\ world = InitialWorld
    /\ clip_last = "init"
    /\ clip_arg = None
    /\ clip_ret = None
    /\ clip_raised = NoError
    /\ clip_pre = [items |-> <<>>, operation |-> ""]
    /\ clip_trace = <<>>

\* OperationHistory.__init__(max_size), max_size one of sizes: both stacks empty.
HistoryInit(sizes) ==
    /\ max_size \in sizes
    /\ undo_stack = <<>>
    /\ redo_stack = <<>>
    /\ ret = None
    /\ raised = NoError
    /\ last = "init"
    /\ pre = [undo_stack |-> <<>>, redo_stack |-> <<>>, last |-> "init", ret |-> None]
    /\ log = <<>>
    /\ evicted = {}
    /\ only_records = TRUE
    /\ pc = "idle"
    /\ count = 0
    /\ redo_count = 0
    /\ orig = [undo_stack |-> <<>>, redo_stack |-> <<>>]

\* No handler of the application has run yet (on_mount just returned).
Quiet(name) ==
    [last |-> name, chain |-> <<>>, before |-> None, mark |-> None,
     notice |-> "", raised |-> NoError, trace |-> <<>>]

\* The paste() executions that may be in progress at the same time.
Threads == {1, 2}

\* A paste() execution that has not been called: no position, no locals.
Resting ==
    [pc |-> "idle", destination |-> "", list |-> <<>>, i |-> 0, dest_path |-> None,
     counter |-> 0, results |-> <<>>, overlap |-> FALSE]

AppInit ==
    /\ app = Quiet("init")
    /\ threads = [t \in Threads |-> Resting]

\* A history of any bound in 0..MaxSizeBound beside a fresh clipboard.
Init ==
    /\ HistoryInit(0..MaxSizeBound)
    /\ ClipboardInit
    /\ AppInit

\* The effect of one call with outcome out on the object and the call history.
Call(name, out) ==
    /\ undo_stack' = out.self.undo_stack
    /\ redo_stack' = out.self.redo_stack
    /\ ret' = out.ret
    /\ raised' = out.raised
    /\ last' = name
    /\ pre' = Snapshot
    /\ UNCHANGED max_size

Serials(s) == {s[i]["index"] : i \in 1..Len(s)}

\* history.record(operation, index=i)
Record ==
    /\ pc = "idle"
    /\ Len(log) < MaxRecords
    /\ \E operation \in Kinds :
          LET kwargs == Kwargs(operation, Len(log))
              out == record(self, operation, kwargs)
          IN  /\ Call("record", out)
              /\ log' = Append(log, [operation |-> operation, kwargs |-> kwargs])
              /\ evicted' = evicted \cup
                    ((Serials(undo_stack) \cup Serials(redo_stack) \cup {kwargs["index"]})
                       \ (Serials(out.self.undo_stack) \cup Serials(out.self.redo_stack)))
    /\ UNCHANGED <<only_records, pc, count, redo_count, orig>>
    /\ UNCHANGED <<clipVars, app, threads>>

\* history.undo()
Undo ==
    /\ pc = "idle"
    /\ Call("undo", undo(self))
    /\ only_records' = FALSE
    /\ UNCHANGED <<log, evicted, pc, count, redo_count, orig>>
    /\ UNCHANGED <<clipVars, app, threads>>

\* history.redo()
Redo ==
    /\ pc = "idle"
    /\ Call("redo", redo(self))
    /\ only_records' = FALSE
    /\ UNCHANGED <<log, evicted, pc, count, redo_count, orig>>
    /\ UNCHANGED <<clipVars, app, threads>>

\* Stress test: start of "count = 0; while history.can_undo(): ...".
UndoAllStart ==
    /\ pc = "idle"
    /\ pc' = "undo_all"
    /\ count' = 0
    /\ redo_count' = 0
    /\ orig' = [undo_stack |-> undo_stack, redo_stack |-> redo_stack]
    /\ UNCHANGED <<max_size, undo_stack, redo_stack, ret, raised, last, pre, log,
                   evicted, only_records>>
    /\ UNCHANGED <<clipVars, app, threads>>

\* One iteration of the undo-all loop: history.undo(); count += 1.
UndoAllStep ==
    /\ pc = "undo_all"
    /\ can_undo(self)
    /\ Call("undo", undo(self))
    /\ count' = count + 1
    /\ only_records' = FALSE
    /\ UNCHANGED <<log, evicted, pc, redo_count, orig>>
    /\ UNCHANGED <<clipVars, app, threads>>

\* can_undo() is false: the undo-all loop ends and the redo-all loop starts.
UndoAllExit ==
    /\ pc = "undo_all"
    /\ ~can_undo(self)
    /\ pc' = "redo_all"
    /\ UNCHANGED <<max_size, undo_stack, redo_stack, ret, raised, last, pre, log,
                   evicted, only_records, count, redo_count, orig>>
    /\ UNCHANGED <<clipVars, app, threads>>

\* One iteration of the redo-all loop: history.redo(); redo_count += 1.
RedoAllStep ==
    /\ pc = "redo_all"
    /\ can_redo(self)
    /\ Call("redo", redo(self))
    /\ redo_count' = redo_count + 1
    /\ only_records' = FALSE
    /\ UNCHANGED <<log, evicted, pc, count, orig>>
    /\ UNCHANGED <<clipVars, app, threads>>

\* can_redo() is false: the redo-all loop ends.
RedoAllExit ==
    /\ pc = "redo_all"
    /\ ~can_redo(self)
    /\ pc' = "done"
    /\ UNCHANGED <<max_size, undo_stack, redo_stack, ret, raised, last, pre, log,
                   evicted, only_records, count, redo_count, orig>>
    /\ UNCHANGED <<clipVars, app, threads>>

\* The test is over; the history goes on being used.
Finish ==
    /\ pc = "done"
    /\ pc' = "idle"
    /\ count' = 0
    /\ redo_count' = 0
    /\ orig' = [undo_stack |-> <<>>, redo_stack |-> <<>>]
    /\ UNCHANGED <<max_size, undo_stack, redo_stack, ret, raised, last, pre, log,
                   evicted, only_records>>
    /\ UNCHANGED <<clipVars, app, threads>>

Next ==
    \/ Record
    \/ Undo
    \/ Redo
    \/ UndoAllStart
    \/ UndoAllStep
    \/ UndoAllExit
    \/ RedoAllStep
    \/ RedoAllExit
    \/ Finish

Spec == Init /\ [][Next]_vars

----------------------------------------------------------------------------
\* The clipboard's state machine: ClipboardManager calls in any order, with
\* the environment deleting and re-creating files in between.

\* The path a paste of DirB into /dst creates: a caller may stage it as well.
DstB == Path("/dst", "b", "")

\* The sequences of paths staged: none, one entry, two entries, one entry
\* twice, and an entry of /src together with its namesake in /dst.
StagedSeqs ==
    {<<>>, <<FileA>>, <<DirB>>, <<FileA, DirB>>, <<FileA, FileA>>,
     <<DirB, DstB>>, <<DstB, DirB>>}

\* No ClipboardManager call is in progress or waiting to be looked at.
ClipIdle == clip_last \in {"init", "idle"}

\* The effect of one ClipboardManager call on the object and the call history.
ClipCall(name, arg, c, w, retv, exc, trace) ==
    /\ ClipIdle
    /\ items' = c.items
    /\ clip_operation' = c.operation
    /\ world' = w
    /\ clip_last' = name
    /\ clip_arg' = arg
    /\ clip_ret' = retv
    /\ clip_raised' = exc
    /\ clip_pre' = clipboard
    /\ clip_trace' = trace
    /\ UNCHANGED histVars

\* Mutant of Copy: the paths are checked at staging time, and a missing one
\* makes the call raise without staging anything.
Copy_checks_paths ==
    \E paths \in StagedSeqs :
        IF \A i \in 1..Len(paths) : exists(world, paths[i])
        THEN /\ ClipCall("copy", paths, copy(clipboard, paths), world, None, NoError, <<>>)
             /\ UNCHANGED <<app, threads>>
        ELSE /\ ClipCall("copy", paths, clipboard, world, None, "FileNotFoundError", <<>>)
             /\ UNCHANGED <<app, threads>>

\* clipboard.copy(paths)
Copy ==
    /\ \E paths \in StagedSeqs :
          ClipCall("copy", paths, copy(clipboard, paths), world, None, NoError, <<>>)
    /\ UNCHANGED <<app, threads>>

\* clipboard.cut(paths)
Cut ==
    /\ \E paths \in StagedSeqs :
          ClipCall("cut", paths, cut(clipboard, paths), world, None, NoError, <<>>)
    /\ UNCHANGED <<app, threads>>

\* clipboard.clear()
Clear ==
    /\ ClipCall("clear", None, clear(clipboard), world, None, NoError, <<>>)
    /\ UNCHANGED <<app, threads>>

\* clipboard.has_items()
HasItems ==
    /\ ClipCall("has_items", None, clipboard, world, has_items(clipboard), NoError, <<>>)
    /\ UNCHANGED <<app, threads>>

\* clipboard.paste(destination) for a destination of dests; the environment
\* refuses the transfers of the items in fails.
PasteInto(dests) ==
    /\ \E destination \in dests, fails \in SUBSET (1..Len(items)) :
          LET out == paste(clipboard, world, destination, fails)
          IN  /\ Cardinality(DOMAIN out.w.files) <= MaxFiles
              /\ ClipCall("paste", destination, out.clipboard, out.w, out.ret,
                          out.raised, out.trace)
    /\ UNCHANGED <<app, threads>>

Paste == PasteInto(Destinations)

\* The caller is done with the result of the call: the call history is reset.
ClipReturn ==
    /\ ~ClipIdle
    /\ clip_last' = "idle"
    /\ clip_arg' = None
    /\ clip_ret' = None
    /\ clip_raised' = NoError
    /\ clip_pre' = [items |-> <<>>, operation |-> ""]
    /\ clip_trace' = <<>>
    /\ UNCHANGED <<items, clip_operation, world>>
    /\ UNCHANGED <<histVars, app, threads>>

\* Between two calls something outside the program deletes an entry.
ExternalDelete ==
    /\ ClipIdle
    /\ \E p \in DOMAIN world.files : world' = remove(world, p)
    /\ UNCHANGED <<items, clip_operation, clip_last, clip_arg, clip_ret, clip_raised,
                   clip_pre, clip_trace>>
    /\ UNCHANGED <<histVars, app, threads>>

ClipNext ==
    \/ Copy
    \/ Cut
    \/ Clear
    \/ HasItems
    \/ Paste
    \/ ClipReturn
    \/ ExternalDelete

\* The application's clipboard beside its (unused) default-sized history.
ClipInit ==
    /\ HistoryInit({DefaultMaxSize})
    /\ ClipboardInit
    /\ AppInit

ClipSpec == ClipInit /\ [][ClipNext]_vars

----------------------------------------------------------------------------
\* ExplorerApp (explorer.py): the handlers that drive the clipboard and the
\* history and reverse or replay a returned record on the filesystem.

\* The filesystem without the directory p and the entries under it.
without_tree(w, p) ==
    [files |-> [q \in {x \in DOMAIN w.files : x # p /\ x.dir # pathstr(p)} |-> w.files[q]],
     dirs |-> w.dirs \ {pathstr(p)}]

\* shutil.rmtree(path); envfail: the environment refuses it.
rmtree(w, p, envfail) ==
    IF envfail \/ ~isdir(w, p)
    THEN Failed(w)
    ELSE Done(without_tree(w, p))

\* os.remove(path): raises for a missing path and for a directory.
os_remove(w, p, envfail) ==
    IF envfail \/ ~exists(w, p) \/ isdir(w, p)
    THEN Failed(w)
    ELSE Done(remove(w, p))

\* send2trash.send2trash(path)
send2trash(w, p, envfail) ==
    IF envfail \/ ~exists(w, p)
    THEN Failed(w)
    ELSE IF isdir(w, p) THEN Done(without_tree(w, p)) ELSE Done(remove(w, p))

\* One iteration of action_undo's loop over op["items"]: the destination is
\* removed inside try/except.
undo_item(w, dest, envfail) ==
    LET t == IF isdir(w, dest) THEN rmtree(w, dest, envfail) ELSE os_remove(w, dest, envfail)
    IN  [w |-> t.w,
         step |-> [dest |-> dest, existed |-> exists(w, dest),
                   before |-> w, after |-> t.w, ok |-> t.ok]]

\* Mutant of undo_items: the first removal that raises ends the loop (the
\* try/except is around the loop).
RECURSIVE undo_items_aborts(_, _, _, _, _)
undo_items_aborts(w, pairs, fails, i, trace) ==
    IF i > Len(pairs)
    THEN [w |-> w, trace |-> trace]
    ELSE LET r == undo_item(w, pairs[i][2], i \in fails)
         IN  IF ~r.step.ok
             THEN [w |-> r.w, trace |-> Append(trace, r.step)]
             ELSE undo_items_aborts(r.w, pairs, fails, i + 1, Append(trace, r.step))

\* action_undo's loop "for _, dest in op['items']" from the i-th pair on;
\* fails: the pairs whose removal the environment refuses.
RECURSIVE undo_items(_, _, _, _, _)
undo_items(w, pairs, fails, i, trace) ==
    IF i > Len(pairs)
    THEN [w |-> w, trace |-> trace]
    ELSE LET r == undo_item(w, pairs[i][2], i \in fails)
         IN  undo_items(r.w, pairs, fails, i + 1, Append(trace, r.step))

\* What one iteration of action_redo's loop did.
RedoStep(w, src, dest, t) ==
    [w |-> t.w,
     step |-> [src |-> src, dest |-> dest, existed |-> exists(w, src),
               before |-> w, after |-> t.w, ok |-> t.ok]]

\* Mutant of redo_item: the destination is chosen again, as paste does.
redo_item_resolves(w, src, dest, envfail) ==
    IF ~exists(w, src)
    THEN RedoStep(w, src, dest, Failed(w))
    ELSE RedoStep(w, src, dest,
                  transfer("copy", w, src, resolve(w, dest.dir, src), envfail))

\* One iteration of action_redo's loop: copytree or copy2 from src to the
\* recorded dest inside try/except (copy2 raises for a missing src).
redo_item(w, src, dest, envfail) ==
    IF isdir(w, src)
    THEN RedoStep(w, src, dest, copytree(w, src, dest, envfail))
    ELSE IF ~exists(w, src)
    THEN RedoStep(w, src, dest, Failed(w))
    ELSE RedoStep(w, src, dest, copy2(w, src, dest, envfail))

\* action_redo's loop "for src, dest in op['items']" from the i-th pair on.
RECURSIVE redo_items(_, _, _, _, _)
redo_items(w, pairs, fails, i, trace) ==
    IF i > Len(pairs)
    THEN [w |-> w, trace |-> trace]
    ELSE LET r == redo_item(w, pairs[i][1], pairs[i][2], i \in fails)
         IN  redo_items(r.w, pairs, fails, i + 1, Append(trace, r.step))

\* What a handler did: the history call it made, the filesystem after it,
\* its notification, the exception that escaped it, its per-item steps.
Handled(hist, w, notice, exc, trace) ==
    [hist |-> hist, w |-> w, notice |-> notice, raised |-> exc, trace |-> trace]

\* Mutant of after_paste: the paste is recorded whatever results holds.
after_paste_always_records(h, dest, out) ==
    [clipboard |-> out.clipboard, w |-> out.w, results |-> out.ret,
     trace |-> out.trace, recorded |-> TRUE,
     hist |-> record(h, "paste", [items |-> out.ret, destination |-> dest]),
     notice |-> "Pasted"]

\* action_paste_files after "results = self.file_clipboard.paste(dest)"
\* gave out: if results is not empty the paste is recorded and notified.
after_paste(h, dest, out) ==
    [clipboard |-> out.clipboard, w |-> out.w, results |-> out.ret,
     trace |-> out.trace, recorded |-> out.ret # <<>>,
     hist |-> record(h, "paste", [items |-> out.ret, destination |-> dest]),
     notice |-> IF out.ret # <<>> THEN "Pasted" ELSE ""]

\* ExplorerApp.action_paste_files: paste into the pane's directory and, if
\* anything was pasted, record it.
action_paste_files(c, h, w, dest, fails) ==
    after_paste(h, dest, paste(c, w, dest, fails))

\* Mutant of action_undo: a delete record is dropped without a word (the
\* "delete" branch is missing).
action_undo_silent_delete(h, w, fails) ==
    LET u == undo(h)
        op == u.ret
    IN  IF op = None
        THEN Handled(u, w, "", NoError, <<>>)
        ELSE IF op["op"] = "paste"
        THEN IF "items" \notin DOMAIN op
             THEN Handled(u, w, "", "KeyError", <<>>)
             ELSE LET r == undo_items(w, op["items"], fails, 1, <<>>)
                  IN  Handled(u, r.w, "Undone: Paste", NoError, r.trace)
        ELSE Handled(u, w, "", NoError, <<>>)

\* ExplorerApp.action_undo: a paste is undone by removing its destinations,
\* a delete is only reported.
action_undo(h, w, fails) ==
    LET u == undo(h)
        op == u.ret
    IN  IF op = None
        THEN Handled(u, w, "", NoError, <<>>)
        ELSE IF op["op"] = "paste"
        THEN IF "items" \notin DOMAIN op
             THEN Handled(u, w, "", "KeyError", <<>>)
             ELSE LET r == undo_items(w, op["items"], fails, 1, <<>>)
                  IN  Handled(u, r.w, "Undone: Paste", NoError, r.trace)
        ELSE IF op["op"] = "delete"
        THEN Handled(u, w, "Cannot undo delete (sent to trash)", NoError, <<>>)
        ELSE Handled(u, w, "", NoError, <<>>)

\* ExplorerApp.action_redo: a paste is redone by copying each source to its
\* recorded destination.
action_redo(h, w, fails) ==
    LET u == redo(h)
        op == u.ret
    IN  IF op = None
        THEN Handled(u, w, "", NoError, <<>>)
        ELSE IF op["op"] = "paste"
        THEN IF "items" \notin DOMAIN op
             THEN Handled(u, w, "", "KeyError", <<>>)
             ELSE LET r == redo_items(w, op["items"], fails, 1, <<>>)
                  IN  Handled(u, r.w, "Redone: Paste", NoError, r.trace)
        ELSE Handled(u, w, "", NoError, <<>>)

\* FilePane.action_delete_file: the selected path goes to the trash; the
\* history is not touched.
action_delete_file(h, w, path, envfail) ==
    LET same == Outcome(h, h.undo_stack, h.redo_stack, None, NoError)
    IN  IF ~exists(w, path)
        THEN Handled(same, w, "", NoError, <<>>)
        ELSE LET t == send2trash(w, path, envfail)
             IN  IF t.ok
                 THEN Handled(same, t.w, "Moved to trash", NoError, <<>>)
                 ELSE Handled(same, w, "Error deleting", NoError, <<>>)

\* The application's state machine: its handlers run one after the other
\* (one UI event at a time); an undo may follow a paste, and a redo an undo,
\* before the call history is reset.

\* No handler is waiting to be looked at.
AppIdle == app.last \in {"init", "idle"}

\* The rows a handler can find selected: one entry (action_copy_files stages
\* [sel]); the clipboard also takes a list of two.
Selections == {<<FileA>>, <<DirB>>, <<FileA, DirB>>}

\* The call history after handler name with outcome out.
Trail(name, out) ==
    [last |-> name, chain |-> Append(app.chain, name), before |-> world,
     mark |-> IF AppIdle THEN world ELSE app.mark,
     notice |-> out.notice, raised |-> out.raised, trace |-> out.trace]

\* The handler's own history call: OperationHistory.undo() or redo().
HistoryCall(name, out) ==
    /\ Call(name, out.hist)
    /\ only_records' = FALSE
    /\ UNCHANGED <<log, evicted, pc, count, redo_count, orig>>

\* action_copy_files
AppCopy ==
    /\ AppIdle
    /\ \E paths \in Selections :
          ClipCall("copy", paths, copy(clipboard, paths), world, None, NoError, <<>>)
    /\ UNCHANGED threads
    /\ app' = Trail("copy", Handled(None, world, "Copied", NoError, <<>>))

\* action_cut_files
AppCut ==
    /\ AppIdle
    /\ \E paths \in Selections :
          ClipCall("cut", paths, cut(clipboard, paths), world, None, NoError, <<>>)
    /\ UNCHANGED threads
    /\ app' = Trail("cut", Handled(None, world, "Cut", NoError, <<>>))

\* The effect of action_paste_files with outcome out on the clipboard, the
\* filesystem, the history and the call history.
PasteEffect(dest, out) ==
    /\ Cardinality(DOMAIN out.w.files) <= MaxFiles
    /\ items' = out.clipboard.items
    /\ clip_operation' = out.clipboard.operation
    /\ world' = out.w
    /\ clip_last' = "paste"
    /\ clip_arg' = dest
    /\ clip_ret' = out.results
    /\ clip_raised' = NoError
    /\ clip_pre' = clipboard
    /\ clip_trace' = out.trace
    /\ UNCHANGED threads
    /\ app' = Trail("paste", Handled(None, out.w, out.notice, NoError, out.trace))
    /\ IF out.recorded
       THEN /\ Call("record", out.hist)
            /\ UNCHANGED <<log, evicted, only_records, pc, count, redo_count, orig>>
       ELSE UNCHANGED histVars

\* action_paste_files with outcome out while the history holds fewer than
\* MaxPastes records.
PasteHandled(dest, out) ==
    /\ out.recorded => Len(undo_stack) + Len(redo_stack) < MaxPastes
    /\ PasteEffect(dest, out)

\* action_paste_files into the pane showing /dst
AppPaste ==
    /\ AppIdle
    /\ \E dest \in Destinations, fails \in SUBSET (1..Len(items)) :
          PasteHandled(dest, action_paste_files(clipboard, self, world, dest, fails))

\* The number of pairs of the record on top of stack s (0 if there is none).
TopPairs(s) ==
    IF s # <<>> /\ "items" \in DOMAIN s[Len(s)] THEN Len(s[Len(s)]["items"]) ELSE 0

\* action_undo, from rest or right after a paste
AppUndo ==
    /\ AppIdle \/ app.chain = <<"paste">>
    /\ \E fails \in SUBSET (1..TopPairs(undo_stack)) :
          LET out == action_undo(self, world, fails)
          IN  /\ HistoryCall("undo", out)
              /\ world' = out.w
              /\ UNCHANGED threads
              /\ app' = Trail("undo", out)
    /\ UNCHANGED <<items, clip_operation, clip_last, clip_arg, clip_ret, clip_raised,
                   clip_pre, clip_trace>>

\* action_redo, from rest or right after an undo
AppRedo ==
    /\ AppIdle \/ app.chain \in {<<"undo">>, <<"paste", "undo">>}
    /\ \E fails \in SUBSET (1..TopPairs(redo_stack)) :
          LET out == action_redo(self, world, fails)
          IN  /\ HistoryCall("redo", out)
              /\ world' = out.w
              /\ UNCHANGED threads
              /\ app' = Trail("redo", out)
    /\ UNCHANGED <<items, clip_operation, clip_last, clip_arg, clip_ret, clip_raised,
                   clip_pre, clip_trace>>

\* The destinations of the record on top of stack s.
TopDests(s) ==
    IF TopPairs(s) = 0
    THEN {}
    ELSE {s[Len(s)]["items"][i][2] : i \in 1..TopPairs(s)}

\* action_delete_file on a listed row: a source entry or an entry of the
\* last paste.
AppDelete ==
    /\ AppIdle
    /\ \E path \in SourcePaths \cup TopDests(undo_stack), envfail \in BOOLEAN :
          LET out == action_delete_file(self, world, path, envfail)
          IN  /\ undo_stack' = out.hist.self.undo_stack
              /\ redo_stack' = out.hist.self.redo_stack
              /\ world' = out.w
              /\ UNCHANGED threads
              /\ app' = [Trail("delete", out) EXCEPT !.trace = <<path>>]
    /\ UNCHANGED <<max_size, ret, raised, last, pre, log, evicted, only_records, pc,
                   count, redo_count, orig>>
    /\ UNCHANGED <<items, clip_operation, clip_last, clip_arg, clip_ret, clip_raised,
                   clip_pre, clip_trace>>

\* The handlers are done: the call history is reset.
AppReturn ==
    /\ ~AppIdle
    /\ UNCHANGED threads
    /\ app' = Quiet("idle")
    /\ clip_last' = "idle"
    /\ clip_arg' = None
    /\ clip_ret' = None
    /\ clip_raised' = NoError
    /\ clip_pre' = [items |-> <<>>, operation |-> ""]
    /\ clip_trace' = <<>>
    /\ ret' = None
    /\ raised' = NoError
    /\ last' = "idle"
    /\ pre' = [undo_stack |-> <<>>, redo_stack |-> <<>>, last |-> "idle", ret |-> None]
    /\ UNCHANGED <<items, clip_operation, world>>
    /\ UNCHANGED <<max_size, undo_stack, redo_stack, log, evicted, only_records, pc,
                   count, redo_count, orig>>

\* Between two handlers something outside the program deletes an entry the
\* last paste made (the case action_undo's try/except is there for).
AppExternalDelete ==
    /\ AppIdle
    /\ \E p \in TopDests(undo_stack) \cap DOMAIN world.files : world' = remove(world, p)
    /\ UNCHANGED <<items, clip_operation, clip_last, clip_arg, clip_ret, clip_raised,
                   clip_pre, clip_trace>>
    /\ UNCHANGED <<histVars, app, threads>>

AppNext ==
    \/ AppCopy
    \/ AppCut
    \/ AppPaste
    \/ AppUndo
    \/ AppRedo
    \/ AppDelete
    \/ AppReturn
    \/ AppExternalDelete

AppSpec == ClipInit /\ [][AppNext]_vars

----------------------------------------------------------------------------
\* The clipboard pasting into a directory that does not exist.

\* A destination directory that is absent from the filesystem at start.
MissingDestinations == {"/missing"}

\* clipboard.paste("/missing")
PasteMissing == PasteInto(MissingDestinations)

MissingNext ==
    \/ Copy
    \/ Cut
    \/ Clear
    \/ PasteMissing
    \/ ClipReturn
    \/ ExternalDelete

MissingSpec == ClipInit /\ [][MissingNext]_vars

----------------------------------------------------------------------------
\* The clipboard pasting into the directory the staged entries are in.

\* The directory of the source entries.
OwnDestinations == {"/src"}

\* clipboard.paste("/src")
PasteOwn == PasteInto(OwnDestinations)

OwnNext ==
    \/ Copy
    \/ Cut
    \/ PasteOwn
    \/ ClipReturn
    \/ ExternalDelete

OwnSpec == ClipInit /\ [][OwnNext]_vars

----------------------------------------------------------------------------
\* The application's undo and redo over a history that holds delete records.
\* The handlers of explorer.py never record a delete themselves, so the
\* records are pushed by a direct call of OperationHistory.record.

\* history.record("delete", path=path) for a row of the source pane
RecordDelete ==
    /\ AppIdle
    /\ Len(undo_stack) + Len(redo_stack) < MaxRecords
    /\ \E path \in SourcePaths :
          Call("record", record(self, "delete", [path |-> path]))
    /\ UNCHANGED <<log, evicted, only_records, pc, count, redo_count, orig>>
    /\ UNCHANGED <<clipVars, app, threads>>

TrashNext ==
    \/ AppDelete
    \/ RecordDelete
    \/ AppUndo
    \/ AppRedo
    \/ AppReturn

TrashSpec == ClipInit /\ [][TrashNext]_vars

----------------------------------------------------------------------------
\* The application pasting again after an undo: the new record goes onto a
\* history whose redo stack holds the undone one.

\* action_paste_files with outcome out while undo_stack holds fewer than
\* MaxPastes records.
PasteOver(dest, out) ==
    /\ out.recorded => Len(undo_stack) < MaxPastes
    /\ PasteEffect(dest, out)

\* action_paste_files into the pane showing /dst
AppPasteOver ==
    /\ AppIdle
    /\ \E dest \in Destinations, fails \in SUBSET (1..Len(items)) :
          PasteOver(dest, action_paste_files(clipboard, self, world, dest, fails))

RepasteNext ==
    \/ AppCopy
    \/ AppCut
    \/ AppPasteOver
    \/ AppUndo
    \/ AppReturn

RepasteSpec == ClipInit /\ [][RepasteNext]_vars

----------------------------------------------------------------------------
\* The application redoing a paste whose destination is taken again.

\* The entry someone else puts where an undone paste had put one.
ForeignEntry == [kind |-> "file", data |-> 0]

\* Between undo and redo something outside the program creates a file at a
\* destination of the undone record.
AppExternalCreate ==
    /\ AppIdle
    /\ \E p \in TopDests(redo_stack) \ DOMAIN world.files :
          world' = put(world, p, ForeignEntry)
    /\ UNCHANGED <<items, clip_operation, clip_last, clip_arg, clip_ret, clip_raised,
                   clip_pre, clip_trace>>
    /\ UNCHANGED <<histVars, app, threads>>

RetakenNext ==
    \/ AppCopy
    \/ AppCut
    \/ AppPaste
    \/ AppUndo
    \/ AppRedo
    \/ AppReturn
    \/ AppExternalCreate

RetakenSpec == ClipInit /\ [][RetakenNext]_vars

----------------------------------------------------------------------------
\* paste() step by step.  ClipboardManager has no lock: a second paste() of
\* the same clipboard may run between any two filesystem calls of the
\* first.  A step is one pass through the head of the loop, one test of the
\* conflict loop, one transfer, or the end of the call.

\* paste() is called: results = [] and the loop starts over self.items.
paste_begin(c, destination, overlap) ==
    [pc |-> "item", destination |-> destination, list |-> c.items, i |-> 1,
     dest_path |-> None, counter |-> 0, results |-> <<>>, overlap |-> overlap]

\* The head of the loop: the loop ends, a missing item is skipped, or the
\* first candidate destination/basename is formed.
paste_next(th, w) ==
    IF th.i > Len(th.list)
    THEN [th EXCEPT !.pc = "end"]
    ELSE IF ~exists(w, th.list[th.i])
    THEN [th EXCEPT !.i = @ + 1]
    ELSE [th EXCEPT !.pc = "probe",
                    !.dest_path = join(th.destination, basename(th.list[th.i])),
                    !.counter = 1]

\* Mutant of probe_step: no test, the candidate is taken as it is.
probe_step_no_test(th, w) == [th EXCEPT !.pc = "transfer"]

\* Mutant of probe_step: the counter is not incremented.
probe_step_no_increment(th, w) ==
    LET b == basename(th.list[th.i])
    IN  IF exists(w, th.dest_path)
        THEN [th EXCEPT !.dest_path = join(th.destination,
                                           numbered(splitext(b)[1], th.counter, splitext(b)[2]))]
        ELSE [th EXCEPT !.pc = "transfer"]

\* One test of the conflict loop: if dest_path exists the next numbered name
\* is formed and the counter incremented, else the transfer is next.
probe_step(th, w) ==
    LET b == basename(th.list[th.i])
    IN  IF exists(w, th.dest_path)
        THEN [th EXCEPT !.dest_path = join(th.destination,
                                           numbered(splitext(b)[1], th.counter, splitext(b)[2])),
                        !.counter = @ + 1]
        ELSE [th EXCEPT !.pc = "transfer"]

\* The transfer of an item that may be gone since it was tested: copytree,
\* copy2 and move raise for a missing source.
transfer_now(op, w, item, dest_path, envfail) ==
    IF op \in {"copy", "cut"} /\ ~exists(w, item)
    THEN Failed(w)
    ELSE transfer(op, w, item, dest_path, envfail)

\* Mutant of paste_transfer: a transfer that raises ends the loop.
paste_transfer_aborts(th, op, w, envfail) ==
    LET item == th.list[th.i]
        t == transfer_now(op, w, item, th.dest_path, envfail)
    IN  [w |-> t.w,
         th |-> IF t.ok
                THEN [th EXCEPT !.pc = "item", !.i = @ + 1, !.dest_path = None, !.counter = 0,
                                !.results = Append(@, <<item, th.dest_path>>)]
                ELSE [th EXCEPT !.pc = "end", !.dest_path = None, !.counter = 0]]

\* The try block: the transfer under the operation the clipboard holds now;
\* the pair is appended unless the transfer raised; then the next item.
paste_transfer(th, op, w, envfail) ==
    LET item == th.list[th.i]
        t == transfer_now(op, w, item, th.dest_path, envfail)
    IN  [w |-> t.w,
         th |-> [th EXCEPT !.pc = "item", !.i = @ + 1, !.dest_path = None, !.counter = 0,
                           !.results = IF t.ok THEN Append(@, <<item, th.dest_path>>) ELSE @]]

\* The end of paste(): clear() if the operation is "cut" now; return results.
paste_end(th, c) ==
    [clipboard |-> IF c.operation = "cut" THEN clear(c) ELSE c,
     th |-> [th EXCEPT !.pc = "done"]]

\* The execution t is between its call and its return.
InProgress(t) == threads[t].pc \notin {"idle", "done"}

\* The other execution.
Other(t) == CHOOSE u \in Threads : u # t

\* The number of items execution t may still transfer.
Pending(t) == IF InProgress(t) THEN Len(threads[t].list) - threads[t].i + 1 ELSE 0

\* The effect of a step of execution t on the shared state.
PasteStep(t, th, c, w) ==
    /\ threads' = [threads EXCEPT ![t] = th]
    /\ items' = c.items
    /\ clip_operation' = c.operation
    /\ world' = w
    /\ UNCHANGED <<clip_last, clip_arg, clip_ret, clip_raised, clip_pre, clip_trace>>
    /\ UNCHANGED <<histVars, app>>

\* clipboard.paste(destination) is called by execution t; the executions
\* are numbered in the order of their calls.
PasteBegin(t) ==
    /\ ClipIdle
    /\ threads[t].pc = "idle"
    /\ \A u \in Threads : u < t => threads[u].pc # "idle"
    /\ Cardinality(DOMAIN world.files) + Len(items) + Pending(Other(t)) <= MaxRaceFiles
    /\ \E destination \in Destinations :
          PasteStep(t, paste_begin(clipboard, destination, InProgress(Other(t))),
                    clipboard, world)

PasteNextItem(t) ==
    /\ threads[t].pc = "item"
    /\ PasteStep(t, paste_next(threads[t], world), clipboard, world)

PasteProbe(t) ==
    /\ threads[t].pc = "probe"
    /\ PasteStep(t, probe_step(threads[t], world), clipboard, world)

\* The outcome out of the try block of execution t.
Transferred(t, out) == PasteStep(t, out.th, clipboard, out.w)

PasteTransfer(t) ==
    /\ threads[t].pc = "transfer"
    /\ \E envfail \in BOOLEAN :
          Transferred(t, paste_transfer(threads[t], clip_operation, world, envfail))

\* The outcome out of the end of execution t.
Ended(t, out) == PasteStep(t, out.th, out.clipboard, world)

PasteEnd(t) ==
    /\ threads[t].pc = "end"
    /\ Ended(t, paste_end(threads[t], clipboard))

\* One step of execution t between its call and its return.
PasteRun(t) == PasteNextItem(t) \/ PasteProbe(t) \/ PasteTransfer(t) \/ PasteEnd(t)

\* The callers have their results: both executions can be called again.
PasteReturn ==
    /\ \A t \in Threads : ~InProgress(t)
    /\ \E t \in Threads : threads[t].pc = "done"
    /\ threads' = [t \in Threads |-> Resting]
    /\ UNCHANGED <<histVars, clipVars, app>>

\* No paste() has been called and not returned.
AllResting == \A t \in Threads : threads[t].pc = "idle"

\* clipboard.copy(paths) between the pastes
RaceCopy ==
    /\ AllResting
    /\ \E paths \in Selections :
          ClipCall("copy", paths, copy(clipboard, paths), world, None, NoError, <<>>)
    /\ UNCHANGED <<app, threads>>

\* clipboard.cut(paths) between the pastes
RaceCut ==
    /\ AllResting
    /\ \E paths \in Selections :
          ClipCall("cut", paths, cut(clipboard, paths), world, None, NoError, <<>>)
    /\ UNCHANGED <<app, threads>>

RaceNext ==
    \/ RaceCopy
    \/ RaceCut
    \/ ClipReturn
    \/ \E t \in Threads : PasteBegin(t)
    \/ \E t \in Threads : PasteNextItem(t)
    \/ \E t \in Threads : PasteProbe(t)
    \/ \E t \in Threads : PasteTransfer(t)
    \/ \E t \in Threads : PasteEnd(t)
    \/ PasteReturn

RaceSpec == ClipInit /\ [][RaceNext]_vars

\* Every execution that is called and runnable gets its next step.
RaceFairSpec == RaceSpec /\ \A t \in Threads : WF_vars(PasteRun(t))

----------------------------------------------------------------------------
\* Properties of OperationHistory.

Front(s) == SubSeq(s, 1, Len(s) - 1)

LastOf(s) == s[Len(s)]

\* r is the record of the record() call logged as entry: the kind it was
\* called with under "op" and exactly its payload under the payload's keys.
IsRecordOf(r, entry) ==
    /\ DOMAIN r = {"op"} \cup DOMAIN entry.kwargs
    /\ r["op"] = entry.operation
    /\ \A k \in DOMAIN entry.kwargs : r[k] = entry.kwargs[k]

\* C1: after every record(), undo() and redo() call on a history built with
\* max_size = N >= 0, len(undo_stack) <= N.
C1_UndoStackBounded == Len(undo_stack) <= max_size

\* C1 witness: a redo() has refilled the undo stack up to the bound after
\* older records were evicted.
C1_Witness ==
    /\ last = "redo"
    /\ ret # None
    /\ max_size >= 2
    /\ Len(undo_stack) = max_size
    /\ evicted # {}

\* C2: right after any record() call the redo stack is empty and can_redo()
\* is false, whatever the stacks held before.
C2_RecordClearsRedo ==
    last = "record" => (redo_stack = <<>> /\ ~can_redo(self))

\* C2 witness: record() was called after undo() calls had filled the redo stack.
C2_Witness ==
    /\ last = "record"
    /\ pre.last = "undo"
    /\ Len(pre.redo_stack) >= 2

\* C3: undo() on a non-empty undo stack removes its last record, appends that
\* record to the tail of the redo stack and returns it; lengths go from
\* (n, m) to (n-1, m+1) and the other entries keep their positions.
C3_UndoMovesLast ==
    (last = "undo" /\ pre.undo_stack # <<>>) =>
        /\ raised = NoError
        /\ ret = LastOf(pre.undo_stack)
        /\ undo_stack = Front(pre.undo_stack)
        /\ redo_stack = Append(pre.redo_stack, LastOf(pre.undo_stack))
        /\ Len(undo_stack) = Len(pre.undo_stack) - 1
        /\ Len(redo_stack) = Len(pre.redo_stack) + 1

\* C3 witness: undo() acted on an undo stack of several records with records
\* already on the redo stack.
C3_Witness ==
    /\ last = "undo"
    /\ Len(pre.undo_stack) >= 2
    /\ Len(pre.redo_stack) >= 1

\* C4: redo() on a non-empty redo stack removes its last record, appends that
\* record to the tail of the undo stack and returns it; lengths go from
\* (n, m) to (n+1, m-1).
C4_RedoMovesLast ==
    (last = "redo" /\ pre.redo_stack # <<>>) =>
        /\ raised = NoError
        /\ ret = LastOf(pre.redo_stack)
        /\ redo_stack = Front(pre.redo_stack)
        /\ undo_stack = Append(pre.undo_stack, LastOf(pre.redo_stack))
        /\ Len(undo_stack) = Len(pre.undo_stack) + 1
        /\ Len(redo_stack) = Len(pre.redo_stack) - 1

\* C4 witness: redo() acted on a redo stack of several records with records
\* still on the undo stack.
C4_Witness ==
    /\ last = "redo"
    /\ Len(pre.redo_stack) >= 2
    /\ Len(pre.undo_stack) >= 1

\* C5: undo() on an empty undo stack and redo() on an empty redo stack return
\* None, raise nothing and leave both stacks unchanged.
C5_EmptyIsNoOp ==
    /\ (last = "undo" /\ pre.undo_stack = <<>>) =>
          /\ ret = None
          /\ raised = NoError
          /\ undo_stack = pre.undo_stack
          /\ redo_stack = pre.redo_stack
    /\ (last = "redo" /\ pre.redo_stack = <<>>) =>
          /\ ret = None
          /\ raised = NoError
          /\ undo_stack = pre.undo_stack
          /\ redo_stack = pre.redo_stack

\* C5 witness: undo() on an empty undo stack returned None and then redo()
\* on an empty redo stack was called.
C5_Witness ==
    /\ last = "redo"
    /\ pre.redo_stack = <<>>
    /\ pre.last = "undo"
    /\ pre.undo_stack = <<>>
    /\ pre.ret = None

\* C6: undo() on a non-empty undo stack immediately followed by redo()
\* restores both stacks to their contents before the undo, and redo()
\* returns the record undo() returned.  (In the state after the undo, pre
\* holds the stacks before it.)
C6_UndoRedoRoundTrip ==
    [][(last = "undo" /\ pre.undo_stack # <<>> /\ last' = "redo") =>
          /\ undo_stack' = pre.undo_stack
          /\ redo_stack' = pre.redo_stack
          /\ ret' = ret
          /\ ret' # None
          /\ raised' = NoError]_vars

\* C6 witness: redo() ran right after an undo() that returned a record, with
\* other records on both stacks.
C6_Witness ==
    /\ last = "redo"
    /\ pre.last = "undo"
    /\ pre.ret # None
    /\ Len(undo_stack) >= 2
    /\ Len(redo_stack) >= 1

\* C7: recording max_size + k operations (k >= 1) on a fresh history leaves
\* exactly max_size entries: the most recently recorded ones, in recording
\* order (the oldest are evicted).
C7_KeepsMostRecent ==
    (only_records /\ Len(log) > max_size) =>
        /\ Len(undo_stack) = max_size
        /\ \A j \in 1..max_size :
              IsRecordOf(undo_stack[j], log[Len(log) - max_size + j])

\* C7 witness: max_size = 3 and four operations recorded on a fresh history.
C7_Witness ==
    /\ only_records
    /\ max_size = 3
    /\ Len(log) = 4
    /\ last = "record"

\* C8: with max_size = 0 both stacks are empty after any sequence of calls,
\* so can_undo() and can_redo() are always false.
C8_ZeroBoundKeepsNothing ==
    max_size = 0 =>
        /\ undo_stack = <<>>
        /\ redo_stack = <<>>
        /\ ~can_undo(self)
        /\ ~can_redo(self)

\* C8 witness: a history with max_size = 0 on which records were made and
\* undo() and redo() were called.
C8_Witness ==
    /\ max_size = 0
    /\ Len(log) >= 2
    /\ last = "redo"
    /\ pre.last = "undo"

\* C9: every record returned by undo() or redo() was passed to an earlier
\* record() call and not dropped since, with the kind and payload of that
\* call; every stack entry is such a record, and undo()/redo() only move
\* records between the two stacks.
C9_ReturnsRecordedRecords ==
    LET Live(r) == \E i \in 1..Len(log) :
                      /\ IsRecordOf(r, log[i])
                      /\ log[i].kwargs["index"] \notin evicted
    IN  /\ ret # None => Live(ret)
        /\ \A i \in 1..Len(undo_stack) : Live(undo_stack[i])
        /\ \A i \in 1..Len(redo_stack) : Live(redo_stack[i])
        /\ last \in {"undo", "redo"} =>
              /\ Len(undo_stack) + Len(redo_stack)
                    = Len(pre.undo_stack) + Len(pre.redo_stack)
              /\ Serials(undo_stack) \cup Serials(redo_stack)
                    = Serials(pre.undo_stack) \cup Serials(pre.redo_stack)

\* C9 witness: redo() returned a record after older records had been dropped.
C9_Witness ==
    /\ last = "redo"
    /\ ret # None
    /\ evicted # {}
    /\ redo_stack # <<>>

\* C10: from a history with an empty redo stack, undoing until can_undo() is
\* false takes exactly len(undo_stack) undos (at most max_size), and redoing
\* until can_redo() is false takes as many redos and restores the undo stack.
C10_UndoAllRedoAll ==
    (pc = "done" /\ orig.redo_stack = <<>>) =>
        /\ count = Len(orig.undo_stack)
        /\ count <= max_size
        /\ redo_count = count
        /\ undo_stack = orig.undo_stack
        /\ redo_stack = <<>>

\* C10 witness: the two loops finished on a history that started with
\* several records and an empty redo stack.
C10_Witness ==
    /\ pc = "done"
    /\ orig.redo_stack = <<>>
    /\ count >= 2

----------------------------------------------------------------------------
\* Properties of ClipboardManager (specification ClipSpec).

\* The last call was paste().
Pasted == clip_last = "paste"

\* C11 as stated: the pending operation is None (the empty string) if and
\* only if items is empty.  Fails after copy([]) and cut([]).
C11_ModeNoneIffEmpty == (clip_operation = "") <=> (items = <<>>)

\* C11, amended: in every reachable clipboard state, if the pending
\* operation is None then items is empty (staged items always have a mode).
C11_ModeNoneImpliesEmpty == (clip_operation = "") => (items = <<>>)

\* C11 witness: clear() emptied a clipboard that held items.
C11_Witness ==
    /\ clip_last = "clear"
    /\ clip_pre.items # <<>>
    /\ clip_operation = ""

\* C12: after copy(P), has_items() = (len(P) > 0) and the operation is
\* "copy"; after cut(P), has_items() = (len(P) > 0) and the operation is
\* "cut"; also for the empty sequence.
C12_StagingSetsModeAndItems ==
    /\ clip_last = "copy" =>
          /\ has_items(clipboard) = (Len(clip_arg) > 0)
          /\ clip_operation = "copy"
    /\ clip_last = "cut" =>
          /\ has_items(clipboard) = (Len(clip_arg) > 0)
          /\ clip_operation = "cut"

\* C12 witness: the empty sequence was staged over a non-empty clipboard.
C12_Witness ==
    /\ clip_last = "copy"
    /\ clip_arg = <<>>
    /\ clip_pre.items # <<>>
    /\ clip_operation = "copy"

\* C13: copy(P) and cut(P) replace what was staged: afterwards items is
\* exactly P and the mode is that of the call.
C13_StagingReplaces ==
    clip_last \in {"copy", "cut"} =>
        /\ items = clip_arg
        /\ clip_operation = clip_last

\* C13 witness: cut(P) over a clipboard holding other copied items.
C13_Witness ==
    /\ clip_last = "cut"
    /\ clip_pre.operation = "copy"
    /\ Len(clip_pre.items) = 2
    /\ Len(clip_arg) = 1
    /\ clip_arg[1] # clip_pre.items[1]

\* C14: clear() from any state leaves items empty, the operation "" and
\* has_items() false.
C14_ClearResets ==
    clip_last = "clear" =>
        /\ items = <<>>
        /\ clip_operation = ""
        /\ ~has_items(clipboard)

\* C14 witness: clear() on a clipboard holding cut items.
C14_Witness ==
    /\ clip_last = "clear"
    /\ clip_pre.operation = "cut"
    /\ Len(clip_pre.items) = 2

\* C15: paste() in copy mode leaves items and the mode as they were,
\* whatever happened to the transfers.
C15_CopyPasteKeepsClipboard ==
    (Pasted /\ clip_pre.operation = "copy") =>
        /\ items = clip_pre.items
        /\ clip_operation = "copy"

\* C15 witness: a copy-mode paste of two items, one transferred and one refused.
C15_Witness ==
    /\ Pasted
    /\ clip_pre.operation = "copy"
    /\ Len(clip_trace) = 2
    /\ \E i, j \in 1..2 :
          /\ clip_trace[i].ok
          /\ clip_trace[j].existed /\ ~clip_trace[j].ok

\* C16: paste() in cut mode with at least one item transferred leaves the
\* clipboard empty: no items, mode None, has_items() false.
C16_MovePasteClears ==
    (Pasted /\ clip_pre.operation = "cut" /\ clip_ret # <<>>) =>
        /\ items = <<>>
        /\ clip_operation = ""
        /\ ~has_items(clipboard)

\* C16 witness: a cut-mode paste of two items of which exactly one moved.
C16_Witness ==
    /\ Pasted
    /\ clip_pre.operation = "cut"
    /\ Len(clip_pre.items) = 2
    /\ Len(clip_ret) = 1

\* Every staged path was missing when the last paste() reached it.
AllStale == \A i \in 1..Len(clip_trace) : ~clip_trace[i].existed

\* C17 as stated: paste() in cut mode with every staged path deleted
\* returns the empty sequence, raises nothing and leaves items and the cut
\* mode unchanged.
C17_StaleMoveKeepsClipboard ==
    (Pasted /\ clip_pre.operation = "cut" /\ clip_pre.items # <<>> /\ AllStale) =>
        /\ clip_ret = <<>>
        /\ clip_raised = NoError
        /\ items = clip_pre.items
        /\ clip_operation = "cut"

\* The numbered destination of basename b in directory d, with counter k.
NumberedIn(d, b, k) == join(d, numbered(splitext(b)[1], k, splitext(b)[2]))

\* The destination the claim describes for item in world w: d/basename if
\* free, else d/'stem (k)ext' for the smallest k >= 1 that is free.
ExpectedDest(w, d, item) ==
    LET b == basename(item)
        free(k) == NumberedIn(d, b, k) \notin DOMAIN w.files
        kmax == Cardinality(DOMAIN w.files) + 1
    IN  IF join(d, b) \notin DOMAIN w.files
        THEN join(d, b)
        ELSE NumberedIn(d, b,
                CHOOSE k \in 1..kmax : free(k) /\ \A j \in 1..(k - 1) : ~free(j))

\* C18: for each staged path that exists when paste() reaches it, the
\* destination is destination/basename if that is free and otherwise the
\* numbered name with the smallest free k >= 1, the search starting at 1
\* for every item.
C18_SmallestFreeName ==
    Pasted =>
        \A i \in 1..Len(clip_trace) :
            clip_trace[i].existed =>
                clip_trace[i].dest
                    = ExpectedDest(clip_trace[i].before, clip_arg, clip_trace[i].item)

\* C18 witness: the third paste of a.txt into /dst made "a (2).txt" beside
\* a.txt and "a (1).txt".
C18_Witness ==
    /\ Pasted
    /\ clip_ret = << <<FileA, Path("/dst", "a (2)", ".txt")>> >>
    /\ {Path("/dst", "a", ".txt"), Path("/dst", "a (1)", ".txt"),
        Path("/dst", "a (2)", ".txt")} \subseteq DOMAIN world.files

RECURSIVE PairsOf(_)
PairsOf(trace) ==
    IF trace = <<>>
    THEN <<>>
    ELSE (IF trace[1].ok THEN << <<trace[1].item, trace[1].dest>> >> ELSE <<>>)
            \o PairsOf(Tail(trace))

\* C20: paste() skips every staged path that does not exist when it is
\* reached: no pair, no filesystem change, the remaining paths are still
\* processed; with all paths missing the result is empty and nothing is
\* raised.
C20_SkipsMissing ==
    Pasted =>
        /\ Len(clip_trace) = Len(clip_pre.items)
        /\ \A i \in 1..Len(clip_trace) :
              /\ clip_trace[i].item = clip_pre.items[i]
              /\ ~clip_trace[i].existed =>
                    /\ ~clip_trace[i].ok
                    /\ clip_trace[i].after = clip_trace[i].before
        /\ clip_ret = PairsOf(clip_trace)
        /\ clip_raised = NoError
        /\ AllStale => (clip_ret = <<>> /\ world = IF clip_trace = <<>> THEN world
                                                    ELSE clip_trace[1].before)

\* C20 witness: the first of two staged paths was missing and the second
\* was transferred.
C20_Witness ==
    /\ Pasted
    /\ Len(clip_trace) = 2
    /\ ~clip_trace[1].existed
    /\ clip_trace[2].ok
    /\ Len(clip_ret) = 1

C23_ResultIsOrderedManifest ==
    Pasted =>
        /\ Len(clip_ret) <= Len(clip_pre.items)
        /\ \E f \in [1..Len(clip_ret) -> 1..Len(clip_pre.items)] :
              /\ \A k, l \in 1..Len(clip_ret) : k < l => f[k] < f[l]
              /\ \A k \in 1..Len(clip_ret) :
                    /\ clip_trace[f[k]].ok
                    /\ clip_ret[k] = <<clip_pre.items[f[k]], clip_trace[f[k]].dest>>
              /\ \A i \in 1..Len(clip_pre.items) :
                    clip_trace[i].ok => \E k \in 1..Len(clip_ret) : f[k] = i

\* C23 witness: two different items were staged and both were transferred.
C23_Witness ==
    /\ Pasted
    /\ Len(clip_pre.items) = 2
    /\ clip_pre.items[1] # clip_pre.items[2]
    /\ Len(clip_ret) = 2
    /\ clip_ret[1][1] = clip_pre.items[1]
    /\ clip_ret[2][1] = clip_pre.items[2]

\* The filesystem as the last paste() found it.
WorldBeforePaste == IF clip_trace = <<>> THEN world ELSE clip_trace[1].before

\* C22 as stated: paste() to a destination directory that does not exist
\* returns the empty sequence and raises nothing: every existing staged
\* item fails, none is transferred, and in copy mode every source stays.
C22_MissingDestinationYieldsNothing ==
    (Pasted /\ ~dir_exists(WorldBeforePaste, clip_arg)) =>
        /\ clip_ret = <<>>
        /\ clip_raised = NoError
        /\ \A i \in 1..Len(clip_trace) : ~clip_trace[i].ok
        /\ world = WorldBeforePaste

\* C24 as stated: for every pair (source, dest) returned by paste(), after
\* the call dest exists; in copy mode source exists as well; in cut mode
\* source no longer exists.  Fails when a later staged path of a cut is an
\* earlier pair's destination, or a later destination an earlier source.
C24_PairsHoldAfterCall ==
    Pasted =>
        \A k \in 1..Len(clip_ret) :
            /\ exists(world, clip_ret[k][2])
            /\ clip_pre.operation = "copy" => exists(world, clip_ret[k][1])
            /\ clip_pre.operation = "cut" => ~exists(world, clip_ret[k][1])

\* C24, amended: for every returned pair, right after that item's transfer
\* dest exists; in copy mode source exists as well, and both still exist
\* after the call; in cut mode source does not exist right after the
\* transfer.
C24_PairsHoldAfterTransfer ==
    Pasted =>
        \A i \in 1..Len(clip_trace) :
            clip_trace[i].ok =>
                /\ exists(clip_trace[i].after, clip_trace[i].dest)
                /\ clip_pre.operation = "copy" =>
                      /\ exists(clip_trace[i].after, clip_trace[i].item)
                      /\ exists(world, clip_trace[i].item)
                      /\ exists(world, clip_trace[i].dest)
                /\ clip_pre.operation = "cut" =>
                      ~exists(clip_trace[i].after, clip_trace[i].item)

\* C24 witness: a cut of two items both moved, the second one being the
\* destination of the first, which therefore is gone after the call.
C24_Witness ==
    /\ Pasted
    /\ clip_pre.operation = "cut"
    /\ Len(clip_ret) = 2
    /\ clip_ret[2][1] = clip_ret[1][2]
    /\ ~exists(world, clip_ret[1][2])

\* The calls that only touch the clipboard object.
StagingCalls == {"copy", "cut", "clear", "has_items"}

\* C25: copy(), cut(), clear() and has_items() leave the filesystem as it
\* is and always succeed, also for paths that do not exist: the existing
\* entries are the same before and after the call, nothing is raised, and
\* copy()/cut() stage exactly the paths given.
C25_StagingLeavesFilesystem ==
    [][(ClipIdle /\ clip_last' \in StagingCalls) =>
          /\ world' = world
          /\ clip_raised' = NoError
          /\ clip_last' \in {"copy", "cut"} => items' = clip_arg']_vars

\* C25 witness: a path that does not exist was staged.
C25_Witness ==
    /\ clip_last \in {"copy", "cut"}
    /\ clip_raised = NoError
    /\ \E i \in 1..Len(clip_arg) : ~exists(world, clip_arg[i])
    /\ items = clip_arg

----------------------------------------------------------------------------
\* Properties of the application's handlers (specification AppSpec).

\* C26: a newly constructed ClipboardManager has no items and mode None
\* (has_items() false), a newly constructed OperationHistory has both
\* stacks empty (can_undo() and can_redo() false), and can_undo() /
\* can_redo() are true exactly when the respective stack is non-empty.
C26_FreshAndAvailability ==
    /\ app.last = "init" =>
          /\ items = <<>>
          /\ clip_operation = ""
          /\ ~has_items(clipboard)
          /\ undo_stack = <<>>
          /\ redo_stack = <<>>
          /\ ~can_undo(self)
          /\ ~can_redo(self)
    /\ can_undo(self) <=> (undo_stack # <<>>)
    /\ can_redo(self) <=> (redo_stack # <<>>)

\* C26 witness: after an undo the only record is on the redo stack, so
\* can_redo() holds and can_undo() does not.
C26_Witness ==
    /\ app.last = "undo"
    /\ undo_stack = <<>>
    /\ redo_stack # <<>>
    /\ can_redo(self)
    /\ ~can_undo(self)

\* The last handler was action_undo / action_redo and history handed it a
\* record of a paste.
UndonePaste == app.last = "undo" /\ ret # None /\ ret["op"] = "paste"

RedonePaste == app.last = "redo" /\ ret # None /\ ret["op"] = "paste"

\* C27 as stated: undoing the record of a paste, right after that paste and
\* with every removal going through, leaves the filesystem as it was before
\* the paste, in copy mode and in cut mode: the destinations are gone and
\* every pasted item is back at its source path.
C27_UndoRestoresFilesystem ==
    (/\ UndonePaste
     /\ app.chain = <<"paste", "undo">>
     /\ ret["items"] = clip_ret
     /\ \A i \in 1..Len(app.trace) : app.trace[i].ok) =>
        /\ world = app.mark
        /\ \A k \in 1..Len(clip_ret) :
              /\ ~exists(world, clip_ret[k][2])
              /\ exists(world, clip_ret[k][1])

\* C28: action_undo of a paste record goes through every recorded
\* destination: one that exists and whose removal is not refused is gone
\* afterwards, one that is missing or refused is left as found without
\* stopping the loop, and nothing is raised.
C28_UndoRemovesEveryDestination ==
    UndonePaste =>
        /\ app.raised = NoError
        /\ Len(app.trace) = Len(ret["items"])
        /\ \A i \in 1..Len(app.trace) :
              /\ app.trace[i].dest = ret["items"][i][2]
              /\ app.trace[i].ok =>
                    /\ app.trace[i].existed
                    /\ ~exists(app.trace[i].after, app.trace[i].dest)
                    /\ ~exists(world, app.trace[i].dest)
              /\ ~app.trace[i].ok => app.trace[i].after = app.trace[i].before
              /\ ~app.trace[i].existed => ~app.trace[i].ok

\* C28 witness: of two recorded destinations the first had been deleted by
\* someone else and the second was removed by the undo.
C28_Witness ==
    /\ UndonePaste
    /\ Len(app.trace) = 2
    /\ ~app.trace[1].existed
    /\ app.trace[2].existed
    /\ app.trace[2].ok
    /\ ~exists(world, app.trace[2].dest)

\* The destinations a record holds.
RecordedDests(r) == {r["items"][i][2] : i \in 1..Len(r["items"])}

C30_DeleteIsRecorded ==
    (app.last = "delete" /\ app.notice = "Moved to trash") =>
        /\ undo_stack # <<>>
        /\ LastOf(undo_stack)["op"] = "delete"
        /\ \E k \in DOMAIN LastOf(undo_stack) : LastOf(undo_stack)[k] = app.trace[1]
        /\ redo_stack = <<>>

----------------------------------------------------------------------------
\* Properties of undo over delete records (specification TrashSpec).

\* The last handler was action_undo and history handed it a delete record.
UndoneDelete == app.last = "undo" /\ ret # None /\ ret["op"] = "delete"

\* C31: action_undo does not attempt to undo a delete record: it notifies
\* "Cannot undo delete (sent to trash)", raises nothing, runs no filesystem
\* step and leaves the filesystem as it found it.
C31_DeleteUndoIsRefused ==
    UndoneDelete =>
        /\ app.notice = "Cannot undo delete (sent to trash)"
        /\ app.raised = NoError
        /\ app.trace = <<>>
        /\ world = app.before

\* C31 witness: the recorded path had really gone to the trash, and the undo
\* of its record reported and left it missing.
C31_Witness ==
    /\ UndoneDelete
    /\ ~exists(world, ret["path"])
    /\ ~exists(app.before, ret["path"])
    /\ app.notice = "Cannot undo delete (sent to trash)"
    /\ LastOf(redo_stack) = ret

----------------------------------------------------------------------------
\* Further properties of OperationHistory (specification Spec).

\* The operation kinds the history is meant for: a paste and a delete.
SupportedKinds == {"paste", "delete"}

\* C32 as stated: record() called with a kind that is not supported raises
\* and leaves undo_stack and redo_stack as they were.
C32_UnsupportedKindRaises ==
    (last = "record" /\ LastOf(log).operation \notin SupportedKinds) =>
        /\ raised # NoError
        /\ undo_stack = pre.undo_stack
        /\ redo_stack = pre.redo_stack

----------------------------------------------------------------------------
\* Properties of paste() step by step (specifications RaceSpec, RaceFairSpec).

\* Both executions are over and their results not yet given back.
BothDone == \A t \in Threads : threads[t].pc = "done"

\* One execution was over before the other was called.
Serialized == \A t \in Threads : ~threads[t].overlap

\* The destinations of a list of (source, destination) pairs.
DestsOf(results) == {results[k][2] : k \in 1..Len(results)}

\* C33: two paste() executions of which one was over before the other was
\* called return disjoint sets of destinations; a destination returned by
\* both executions occurs only when they were interleaved.
C33_SerializedPastesSelectDistinct ==
    (BothDone /\ Serialized) =>
        DestsOf(threads[1].results) \cap DestsOf(threads[2].results) = {}

\* C33 witness: the race. Two interleaved executions both found
\* /dst/a.txt taken, both chose the numbered name "a (1).txt" before either
\* transferred, and both return it: the second copy went over the first.
C33_Witness ==
    /\ BothDone
    /\ ~Serialized
    /\ \E k \in 1..Len(threads[1].results) :
          /\ threads[1].results[k][2] \in DestsOf(threads[2].results)
          /\ threads[1].results[k][2].name # threads[1].results[k][1].name
          /\ exists(world, threads[1].results[k][2])

\* The entries of directory d.
EntriesIn(w, d) == {q \in DOMAIN w.files : q.dir = d}

\* C34: paste() always terminates.  Every execution that was called reaches
\* its end having gone through its whole list of items, whatever transfers
\* fail and whatever the other execution does; and in an execution that runs
\* alone the conflict loop's counter never runs ahead of the number of names
\* in the destination directory.
C34_PasteTerminates ==
    /\ [](\A t \in Threads :
             (Serialized /\ threads[t].pc = "probe") =>
                threads[t].counter <= Cardinality(EntriesIn(world, threads[t].destination)) + 1)
    /\ \A t \in Threads :
          InProgress(t) ~>
             (threads[t].pc = "done" /\ threads[t].i = Len(threads[t].list) + 1)

\* C34 witness: an execution over two staged items is over; one item was
\* refused or missing, the other got a numbered name after a conflict.
C34_Witness ==
    \E t \in Threads :
        /\ threads[t].pc = "done"
        /\ Len(threads[t].list) = 2
        /\ threads[t].i = 3
        /\ Len(threads[t].results) = 1
        /\ threads[t].results[1][2].name # threads[t].results[1][1].name

----------------------------------------------------------------------------
\* Properties of the application pasting again (specification RepasteSpec).

\* C35: action_paste_files records exactly when paste() returned a non-empty
\* list: then one record {op: "paste", items: the returned list,
\* destination: the pane's directory} is pushed onto undo_stack and
\* redo_stack is emptied; after an empty result both stacks are as before.
C35_PasteRecordedIffNonEmpty ==
    [][(AppIdle /\ app'.last = "paste") =>
          IF clip_ret' # <<>>
          THEN /\ undo_stack' = Append(undo_stack,
                      [op |-> "paste", items |-> clip_ret', destination |-> clip_arg'])
               /\ redo_stack' = <<>>
          ELSE /\ undo_stack' = undo_stack
               /\ redo_stack' = redo_stack]_vars

\* C35 witness: a paste has just been recorded on top of a history whose
\* redo stack held an undone paste, and the redo stack is empty now.
C35_Witness ==
    /\ app.last = "paste"
    /\ last = "record"
    /\ pre.redo_stack # <<>>
    /\ redo_stack = <<>>
    /\ clip_ret # <<>>
    /\ LastOf(undo_stack) = [op |-> "paste", items |-> clip_ret, destination |-> clip_arg]

----------------------------------------------------------------------------
\* Properties of the two stacks of OperationHistory together (specification Spec).

\* C36: on a history with bound max_size the two stacks together never
\* hold more than max_size records, and undo() and redo() leave the sum of
\* their lengths as it was (so redo() cannot take undo_stack past the bound).
C36_StacksTogetherBounded ==
    /\ Len(undo_stack) + Len(redo_stack) <= max_size
    /\ last \in {"undo", "redo"} =>
          Len(undo_stack) + Len(redo_stack) = Len(pre.undo_stack) + Len(pre.redo_stack)

\* C36 witness: a redo has just pushed a record back and undo_stack is at
\* its bound again, on a history that evicted before.
C36_Witness ==
    /\ last = "redo"
    /\ ret # None
    /\ max_size >= 2
    /\ Len(undo_stack) = max_size
    /\ Len(pre.redo_stack) = 1
    /\ evicted # {}

----------------------------------------------------------------------------
\* Properties of undo followed by redo in the application (specification AppSpec).

\* The handlers paste, undo, redo ran one right after the other on the same
\* record, and the environment refused no copy of the redo (a pair whose
\* source is there and whose destination is free went through).
PasteUndoneRedone ==
    /\ RedonePaste
    /\ app.chain = <<"paste", "undo", "redo">>
    /\ ret["items"] = clip_ret
    /\ \A i \in 1..Len(app.trace) :
          (app.trace[i].existed /\ ~exists(app.trace[i].before, app.trace[i].dest))
             => app.trace[i].ok

\* C37 as stated: after paste, undo and redo in a row every recorded
\* destination exists again, for a paste in copy mode and in cut mode.
C37_RedoRestoresPaste ==
    PasteUndoneRedone =>
        \A k \in 1..Len(clip_ret) : exists(world, clip_ret[k][2])

----------------------------------------------------------------------------
\* Properties of redo onto a taken destination (specification RetakenSpec).

\* C38 as stated: action_redo of a paste record never overwrites: a
\* recorded destination that existed when the redo ran has the content it had.
C38_RedoNeverOverwrites ==
    RedonePaste =>
        \A i \in 1..Len(app.trace) :
            exists(app.before, app.trace[i].dest) =>
                /\ exists(world, app.trace[i].dest)
                /\ world.files[app.trace[i].dest] = app.before.files[app.trace[i].dest]

----------------------------------------------------------------------------
\* Properties of paste() of a path staged twice (specification ClipSpec).

\* The last call was a paste of a list holding the same path twice; the path
\* existed when paste() was called and the environment refused no transfer.
StagedTwicePasted ==
    /\ Pasted
    /\ Len(clip_pre.items) = 2
    /\ clip_pre.items[1] = clip_pre.items[2]
    /\ exists(WorldBeforePaste, clip_pre.items[1])
    /\ \A i \in 1..Len(clip_trace) : clip_trace[i].existed => clip_trace[i].ok

\* C39: a path staged twice is, in copy mode, pasted twice, the second copy
\* under the next free numbered name; in cut mode it is pasted once, the
\* second occurrence being missing when its turn comes.
C39_StagedTwice ==
    StagedTwicePasted =>
        /\ clip_pre.operation = "copy" =>
              /\ Len(clip_ret) = 2
              /\ clip_ret[1][1] = clip_pre.items[1]
              /\ clip_ret[2][1] = clip_pre.items[1]
              /\ clip_ret[1][2] # clip_ret[2][2]
              /\ clip_ret[2][2] # join(clip_arg, basename(clip_pre.items[1]))
              /\ clip_ret[2][2]
                    = ExpectedDest(clip_trace[2].before, clip_arg, clip_pre.items[1])
              /\ exists(world, clip_ret[1][2])
              /\ exists(world, clip_ret[2][2])
        /\ clip_pre.operation = "cut" =>
              /\ Len(clip_ret) = 1
              /\ clip_ret[1][1] = clip_pre.items[1]
              /\ ~clip_trace[2].existed
              /\ ~exists(world, clip_pre.items[1])

\* C39 witness: a.txt staged twice was copied into a /dst that held a.txt:
\* the copies are "a (1).txt" and "a (2).txt".
C39_Witness ==
    /\ StagedTwicePasted
    /\ clip_pre.operation = "copy"
    /\ clip_ret = << <<FileA, Path("/dst", "a (1)", ".txt")>>,
                     <<FileA, Path("/dst", "a (2)", ".txt")>> >>

----------------------------------------------------------------------------
\* Properties of paste() into the items' own directory (specification OwnSpec).

\* C40: an existing staged item that lies in the destination directory is
\* its own conflict: its destination is the smallest free numbered name
\* 'stem (k)ext' in that directory, never its own path; a cut then renames
\* it (the original path is gone), a copy puts a numbered sibling beside it.
C40_OwnDirectoryIsConflict ==
    Pasted =>
        \A i \in 1..Len(clip_trace) :
            (clip_trace[i].existed /\ clip_trace[i].item.dir = clip_arg) =>
                /\ clip_trace[i].dest # clip_trace[i].item
                /\ clip_trace[i].dest.dir = clip_arg
                /\ \E k \in 1..MaxFiles :
                      clip_trace[i].dest
                         = NumberedIn(clip_arg, basename(clip_trace[i].item), k)
                /\ clip_trace[i].dest
                      = ExpectedDest(clip_trace[i].before, clip_arg, clip_trace[i].item)
                /\ clip_trace[i].ok =>
                      /\ exists(clip_trace[i].after, clip_trace[i].dest)
                      /\ clip_trace[i].after.files[clip_trace[i].dest]
                            = clip_trace[i].before.files[clip_trace[i].item]
                      /\ clip_pre.operation = "cut" =>
                            ~exists(clip_trace[i].after, clip_trace[i].item)
                      /\ clip_pre.operation = "copy" =>
                            /\ exists(clip_trace[i].after, clip_trace[i].item)
                            /\ clip_trace[i].after.files[clip_trace[i].item]
                                  = clip_trace[i].before.files[clip_trace[i].item]

\* C40 witness: a.txt cut and pasted into its own directory /src is now
\* "a (1).txt" there, and /src/a.txt is gone.
C40_Witness ==
    /\ Pasted
    /\ clip_arg = "/src"
    /\ clip_pre.operation = "cut"
    /\ clip_ret = << <<FileA, Path("/src", "a (1)", ".txt")>> >>
    /\ ~exists(world, FileA)
    /\ exists(world, Path("/src", "a (1)", ".txt"))

====
